---- MODULE Spec2Model ----
(***************************************************************************)
(* Model of erosion.pdf.eroPDF: the grid layout and pagination engine.     *)
(*                                                                         *)
(* The state is the eroPDF instance (rendered_template, layout,            *)
(* rows_per_page, page_number), the sequence of calls made on the canvas   *)
(* and its AcroForm since the canvas was created, and the position of the  *)
(* running call (pc, field_idx, raised).  Python dicts are functions from  *)
(* the keys that are present to their values; None is the empty tuple.     *)
(* Spec is the instance used by one caller at a time; SpecConc is the same *)
(* instance with two save calls running on two threads.                    *)
(***************************************************************************)
EXTENDS Integers, Sequences, FiniteSets, TLC

VARIABLES
    rendered_template,  \* self.rendered_template: None or the parsed JSON document
    layout,             \* self.layout: dict of geometry overrides
    rows_per_page,      \* self.rows_per_page: None, or <<n>> for the integer n
    page_number,        \* self.page_number
    canvas,             \* calls made on self.canvas / self.form, in order
    pc,                 \* "idle" | "loop" | "draw" | "done" | "error"
    field_idx,          \* 1-based position of the field the save loop is at
    raised,             \* the exception that ended the last call, or "none"
    previous,           \* history: None, or how the save call before this one ended
    thread              \* SpecConc: per thread, the position of its save call
                        \* (pc, field_idx, raised) and the calls it has made

vars == <<rendered_template, layout, rows_per_page, page_number, canvas,
          pc, field_idx, raised, previous, thread>>

-----------------------------------------------------------------------------
(* Bounds of the model. *)

\* longest field list of a template
MaxFields == 2
\* largest logical row of a field
MaxRow == 4

-----------------------------------------------------------------------------
(* Python values and operators. *)

None == <<>>

\* dict.get(key, default)
Get(d, key, default) == IF key \in DOMAIN d THEN d[key] ELSE default

\* a // b on integers: floor division, ZeroDivisionError is the caller's case
PyFloorDiv(a, b) == IF b > 0 THEN a \div b ELSE (0 - a) \div (0 - b)

\* a % b on integers: the result has the sign of b
PyMod(a, b) == a - b * PyFloorDiv(a, b)

\* reportlab.lib.pagesizes.LETTER, the default page_size, in points
page_size == <<612, 792>>

-----------------------------------------------------------------------------
(* The rendered documents the template collaborator can hand over. *)

\* radio options: grid record, explicit record, record without "value"
OptGrid == [col |-> 0, row |-> 1, value |-> "a"]
OptExplicit == [x |-> 50, y |-> 700, value |-> "b", selected |-> TRUE]
OptNoValue == [col |-> 1, row |-> 0]

FieldPool ==
    \* static text on the grid, one per logical row
    { [type |-> "text", row |-> r, col |-> 1, text |-> "t"] : r \in 0..MaxRow }
    \cup
    { \* no row, no col: both default to 0
      [type |-> "text", text |-> "t", font_size |-> 12],
      \* explicit position; the row still drives pagination
      [type |-> "text", x |-> 50, y |-> 700, row |-> MaxRow],
      \* only x: not an explicit position
      [type |-> "text", x |-> 50, row |-> 1],
      [type |-> "fillable", name |-> "f", row |-> 1, col_span |-> 2],
      [type |-> "fillable", name |-> "f", x |-> 50, y |-> 700, width |-> 80],
      [type |-> "fillable", name |-> "f", x |-> 50, y |-> 700, col |-> 1],
      [type |-> "fillable", row |-> 0],
      [type |-> "checkbox", name |-> "c", row |-> 2, col |-> 1],
      [type |-> "checkbox", row |-> 0],
      [type |-> "radio", name |-> "r", options |-> <<OptGrid, OptExplicit>>],
      [type |-> "radio", name |-> "r", options |-> <<OptGrid, OptNoValue>>],
      [type |-> "radio", options |-> <<OptGrid>>],
      [type |-> "radio", options |-> <<>>],
      [type |-> "radio", row |-> 0],
      [type |-> "line", col1 |-> 0, row1 |-> 0, col2 |-> 1, row2 |-> MaxRow],
      [type |-> "line", col1 |-> 0, row1 |-> 0],
      [type |-> "image", row |-> 0],
      [row |-> 1] }

FieldLists == UNION { [1..n -> FieldPool] : n \in 0..MaxFields }

\* layout blocks: defaults (23 rows per page), 3, 2, 1, 0 and -1 rows per
\* page, and a row_height of 0
Layouts ==
    { <<>>,
      [row_height |-> 230, margin_x |-> 10, column_width |-> 100],
      [margin_y |-> 50, row_height |-> 346],
      [row_height |-> 400],
      [row_height |-> 700],
      [margin_y |-> 400],
      [row_height |-> 0] }

Templates ==
    { [layout |-> l, fields |-> fs] : l \in Layouts, fs \in FieldLists }
    \cup { [fields |-> fs] : fs \in { f \in FieldLists : Len(f) <= 1 } }
    \cup { [layout |-> l] : l \in Layouts }

-----------------------------------------------------------------------------
(* The instance's views of its own state. *)

\* self.rendered_template.get("fields", [])
Fields == Get(rendered_template, "fields", <<>>)

\* variant of the row read by save: a field placed by x and y takes no part
\* in pagination
RowOfGridOnly(field) ==
    IF "x" \in DOMAIN field /\ "y" \in DOMAIN field THEN 0
    ELSE Get(field, "row", 0)

\* variant of the row read by save: a line paginates on its lower endpoint
RowOfLineEnd(field) ==
    IF "row2" \in DOMAIN field THEN field["row2"] ELSE Get(field, "row", 0)

\* field.get("row", 0)
RowOf(field) == Get(field, "row", 0)

\* the integer in self.rows_per_page
Rpp == rows_per_page[1]

-----------------------------------------------------------------------------
(* Pure methods of eroPDF. *)

\* variant of _needs_page_break: the last row of a page already breaks
_needs_page_break_off_by_one(row) == row + 1 >= (page_number + 1) * Rpp

\* variant of _needs_page_break: strict comparison
_needs_page_break_strict(row) == row > (page_number + 1) * Rpp

\* variant of _needs_page_break: the pages already started are forgotten
_needs_page_break_ignore_page(row) == row >= Rpp

\* _needs_page_break(row), called with rows_per_page an integer
_needs_page_break(row) == row >= (page_number + 1) * Rpp

\* variant of the increment: skips a page
increment_page_twice(p) == p + 2

\* self.page_number += 1
increment_page(p) == p + 1

\* variant of _resolve_coords: no wrap of the row at the page capacity
_resolve_coords_no_wrap(field) ==
    IF "x" \in DOMAIN field /\ "y" \in DOMAIN field
    THEN [err |-> "none", x |-> field["x"], y |-> field["y"],
          width |-> Get(field, "width", 100)]
    ELSE IF Rpp = 0
    THEN [err |-> "ZeroDivisionError", x |-> 0, y |-> 0, width |-> 0]
    ELSE [err |-> "none",
          x |-> Get(layout, "margin_x", 50)
                  + Get(field, "col", 0) * Get(layout, "column_width", 120),
          y |-> page_size[2] - Get(layout, "margin_y", 50)
                  - Get(field, "row", 0) * Get(layout, "row_height", 30),
          width |-> Get(field, "col_span", 1) * Get(layout, "column_width", 120)]

\* variant of _resolve_coords: the local row is taken relative to the
\* current page instead of modulo the page capacity
_resolve_coords_page_relative(field) ==
    IF "x" \in DOMAIN field /\ "y" \in DOMAIN field
    THEN [err |-> "none", x |-> field["x"], y |-> field["y"],
          width |-> Get(field, "width", 100)]
    ELSE IF Rpp = 0
    THEN [err |-> "ZeroDivisionError", x |-> 0, y |-> 0, width |-> 0]
    ELSE [err |-> "none",
          x |-> Get(layout, "margin_x", 50)
                  + Get(field, "col", 0) * Get(layout, "column_width", 120),
          y |-> page_size[2] - Get(layout, "margin_y", 50)
                  - (Get(field, "row", 0) - page_number * Rpp)
                      * Get(layout, "row_height", 30),
          width |-> Get(field, "col_span", 1) * Get(layout, "column_width", 120)]

\* variant of _resolve_coords: a field that carries a row is placed on the
\* grid even when it has x and y
_resolve_coords_grid_first(field) ==
    IF "x" \in DOMAIN field /\ "y" \in DOMAIN field /\ "row" \notin DOMAIN field
    THEN [err |-> "none", x |-> field["x"], y |-> field["y"],
          width |-> Get(field, "width", 100)]
    ELSE IF Rpp = 0
    THEN [err |-> "ZeroDivisionError", x |-> 0, y |-> 0, width |-> 0]
    ELSE [err |-> "none",
          x |-> Get(layout, "margin_x", 50)
                  + Get(field, "col", 0) * Get(layout, "column_width", 120),
          y |-> page_size[2] - Get(layout, "margin_y", 50)
                  - PyMod(Get(field, "row", 0), Rpp) * Get(layout, "row_height", 30),
          width |-> Get(field, "col_span", 1) * Get(layout, "column_width", 120)]

\* _resolve_coords(field): [err, x, y, width]; err is "none" or the exception
\* the method raises (row % 0)
_resolve_coords(field) ==
    IF "x" \in DOMAIN field /\ "y" \in DOMAIN field
    THEN [err |-> "none", x |-> field["x"], y |-> field["y"],
          width |-> Get(field, "width", 100)]
    ELSE LET col == Get(field, "col", 0)
             row == Get(field, "row", 0)
             col_span == Get(field, "col_span", 1)
             margin_x == Get(layout, "margin_x", 50)
             margin_y == Get(layout, "margin_y", 50)
             row_height == Get(layout, "row_height", 30)
             col_width == Get(layout, "column_width", 120)
         IN  IF Rpp = 0
             THEN [err |-> "ZeroDivisionError", x |-> 0, y |-> 0, width |-> 0]
             ELSE LET local_row == PyMod(row, Rpp)
                  IN  [err |-> "none",
                       x |-> margin_x + col * col_width,
                       y |-> page_size[2] - margin_y - local_row * row_height,
                       width |-> col_span * col_width]

-----------------------------------------------------------------------------
(* The drawing routines: each yields the calls it makes on the canvas or    *)
(* the form, in order, and the exception that stops it ("none" if none).    *)
(* k is the position of the field in the list; every call is tagged with    *)
(* the source line that makes it.                                           *)

Raise(calls, exc) == [calls |-> calls, err |-> exc]
Return(calls) == [calls |-> calls, err |-> "none"]

\* variant of _draw_debug_page_number: the label is the 0-based page_number
_draw_debug_page_number_zero_based(p, k) ==
    << [line |-> 81, op |-> "setFont", field |-> k, size |-> 8],
       [line |-> 82, op |-> "drawRightString", field |-> k,
        x |-> page_size[1] - 40, y |-> 20, page |-> p] >>

\* _draw_debug_page_number(), after page_number was set to p
_draw_debug_page_number(p, k) ==
    << [line |-> 81, op |-> "setFont", field |-> k, size |-> 8],
       [line |-> 82, op |-> "drawRightString", field |-> k,
        x |-> page_size[1] - 40, y |-> 20, page |-> p + 1] >>

_draw_text(field, k) ==
    LET c == _resolve_coords(field) IN
    IF c.err # "none" THEN Raise(<<>>, c.err)
    ELSE Return(<< [line |-> 105, op |-> "setFont", field |-> k,
                    size |-> Get(field, "font_size", 10)],
                   [line |-> 106, op |-> "drawString", field |-> k,
                    x |-> c.x, y |-> c.y, text |-> Get(field, "text", "")] >>)

_draw_fillable(field, k) ==
    LET c == _resolve_coords(field) IN
    IF c.err # "none" THEN Raise(<<>>, c.err)
    ELSE IF "name" \notin DOMAIN field THEN Raise(<<>>, "KeyError")
    ELSE Return(<< [line |-> 111, op |-> "textfield", field |-> k,
                    name |-> field["name"], x |-> c.x, y |-> c.y,
                    width |-> c.width, height |-> Get(field, "height", 20)] >>)

_draw_checkbox(field, k) ==
    LET c == _resolve_coords(field) IN
    IF c.err # "none" THEN Raise(<<>>, c.err)
    ELSE IF "name" \notin DOMAIN field THEN Raise(<<>>, "KeyError")
    ELSE Return(<< [line |-> 126, op |-> "checkbox", field |-> k,
                    name |-> field["name"], x |-> c.x, y |-> c.y,
                    size |-> Get(field, "size", 12)] >>)

\* the loop of _draw_radio from option n on
RECURSIVE _draw_radio_from(_, _, _)
_draw_radio_from(field, k, n) ==
    LET options == Get(field, "options", <<>>) IN
    IF n > Len(options) THEN Return(<<>>)
    ELSE LET option == options[n]
             c == _resolve_coords(option)
         IN  IF c.err # "none" THEN Raise(<<>>, c.err)
             ELSE IF "name" \notin DOMAIN field THEN Raise(<<>>, "KeyError")
             ELSE IF "value" \notin DOMAIN option THEN Raise(<<>>, "KeyError")
             ELSE LET rest == _draw_radio_from(field, k, n + 1)
                      call == [line |-> 140, op |-> "radio", field |-> k,
                               option |-> n, name |-> field["name"],
                               value |-> option["value"],
                               x |-> c.x, y |-> c.y,
                               size |-> Get(option, "size", 12)]
                  IN  [calls |-> <<call>> \o rest.calls, err |-> rest.err]

_draw_radio(field, k) == _draw_radio_from(field, k, 1)

_draw_line(field, k) ==
    IF "col1" \notin DOMAIN field \/ "row1" \notin DOMAIN field
    THEN Raise(<<>>, "KeyError")
    ELSE LET c1 == _resolve_coords([col |-> field["col1"], row |-> field["row1"]]) IN
    IF c1.err # "none" THEN Raise(<<>>, c1.err)
    ELSE IF "col2" \notin DOMAIN field \/ "row2" \notin DOMAIN field
    THEN Raise(<<>>, "KeyError")
    ELSE LET c2 == _resolve_coords([col |-> field["col2"], row |-> field["row2"]]) IN
    IF c2.err # "none" THEN Raise(<<>>, c2.err)
    ELSE Return(<< [line |-> 154, op |-> "setLineWidth", field |-> k,
                    width |-> Get(field, "width", 1)],
                   [line |-> 155, op |-> "line", field |-> k,
                    x1 |-> c1.x, y1 |-> c1.y, x2 |-> c2.x, y2 |-> c2.y] >>)

\* the kinds _draw_field dispatches on
KnownTypes == {"text", "fillable", "checkbox", "radio", "line"}

\* variant of _draw_field: a field of an unknown kind is skipped
_draw_field_skip_unknown(field, k) ==
    LET field_type == Get(field, "type", "None") IN
    IF field_type = "text" THEN _draw_text(field, k)
    ELSE IF field_type = "fillable" THEN _draw_fillable(field, k)
    ELSE IF field_type = "checkbox" THEN _draw_checkbox(field, k)
    ELSE IF field_type = "radio" THEN _draw_radio(field, k)
    ELSE IF field_type = "line" THEN _draw_line(field, k)
    ELSE Return(<<>>)

\* _draw_field(field); field.get("type") of a field without one is None
_draw_field(field, k) ==
    LET field_type == Get(field, "type", "None") IN
    IF field_type = "text" THEN _draw_text(field, k)
    ELSE IF field_type = "fillable" THEN _draw_fillable(field, k)
    ELSE IF field_type = "checkbox" THEN _draw_checkbox(field, k)
    ELSE IF field_type = "radio" THEN _draw_radio(field, k)
    ELSE IF field_type = "line" THEN _draw_line(field, k)
    ELSE Raise(<<>>, "NotImplementedError")

-----------------------------------------------------------------------------
(* Init: the instance after __init__. *)

\* the threads of SpecConc that call save
Threads == {1, 2}

Init ==
    /\ rendered_template = None
    /\ layout = <<>>
    /\ rows_per_page = None
    /\ page_number = 0
    /\ canvas = <<>>
    /\ pc = "idle"
    /\ field_idx = 0
    /\ raised = "none"
    /\ previous = None
    /\ thread = [t \in Threads |->
                  [pc |-> "idle", field_idx |-> 0, raised |-> "none",
                   emitted |-> <<>>]]

\* render(context): the template collaborator yields any document of Templates.
\* A row_height of 0 raises ZeroDivisionError after layout was stored.
render ==
    /\ pc = "idle"
    /\ rendered_template = None
    /\ \E t \in Templates :
         LET lay == Get(t, "layout", <<>>)
             page_height == page_size[2]
             margin_y == Get(lay, "margin_y", 50)
             row_height == Get(lay, "row_height", 30)
             usable_height == page_height - 2 * margin_y
         IN  /\ rendered_template' = t
             /\ layout' = lay
             /\ IF row_height = 0
                THEN /\ raised' = "ZeroDivisionError"
                     /\ pc' = "error"
                     /\ UNCHANGED rows_per_page
                ELSE /\ rows_per_page' = <<PyFloorDiv(usable_height, row_height)>>
                     /\ raised' = "none"
                     /\ UNCHANGED pc
    /\ UNCHANGED <<page_number, canvas, field_idx, previous, thread>>

\* variant of the start of save: page_number is not reset
save_begin_keep_page ==
    /\ pc \in {"idle", "done", "error"}
    /\ canvas' = <<>>
    /\ UNCHANGED page_number
    /\ field_idx' = 1
    /\ IF rendered_template = None
       THEN pc' = "error" /\ raised' = "AttributeError"
       ELSE pc' = "loop" /\ raised' = "none"
    /\ previous' = IF field_idx >= 1
                   THEN [canvas |-> canvas, pc |-> pc, raised |-> raised,
                         page_number |-> page_number]
                   ELSE previous
    /\ UNCHANGED <<rendered_template, layout, rows_per_page, thread>>

\* save(output_path), lines 41-43 and the entry of the loop: a new canvas,
\* page_number reset; rendered_template None has no .get
save_begin ==
    /\ pc \in {"idle", "done", "error"}
    /\ canvas' = <<>>
    /\ page_number' = 0
    /\ field_idx' = 1
    /\ IF rendered_template = None
       THEN pc' = "error" /\ raised' = "AttributeError"
       ELSE pc' = "loop" /\ raised' = "none"
    /\ previous' = IF field_idx >= 1
                   THEN [canvas |-> canvas, pc |-> pc, raised |-> raised,
                         page_number |-> page_number]
                   ELSE previous
    /\ UNCHANGED <<rendered_template, layout, rows_per_page, thread>>

\* save, lines 46-51 for the field at field_idx: the page-break decision and
\* the page break.  rows_per_page None makes the comparison a TypeError.
save_page_break ==
    /\ pc = "loop"
    /\ field_idx <= Len(Fields)
    /\ LET row == RowOf(Fields[field_idx]) IN
       IF rows_per_page = None
       THEN /\ pc' = "error"
            /\ raised' = "TypeError"
            /\ UNCHANGED <<page_number, canvas>>
       ELSE IF _needs_page_break(row)
       THEN /\ page_number' = increment_page(page_number)
            /\ canvas' = canvas
                 \o << [line |-> 48, op |-> "showPage", field |-> field_idx] >>
                 \o _draw_debug_page_number(page_number', field_idx)
            /\ pc' = "draw"
            /\ UNCHANGED raised
       ELSE /\ pc' = "draw"
            /\ UNCHANGED <<page_number, canvas, raised>>
    /\ UNCHANGED <<rendered_template, layout, rows_per_page, field_idx,
                   previous, thread>>

\* variant of line 53: a field that broke the page is not drawn
save_draw_field_skip_after_break ==
    /\ pc = "draw"
    /\ LET broke == /\ canvas # <<>>
                     /\ canvas[Len(canvas)].line = 82
                     /\ canvas[Len(canvas)].field = field_idx
           r == IF broke THEN Return(<<>>)
                ELSE _draw_field(Fields[field_idx], field_idx)
       IN
       /\ canvas' = canvas \o r.calls
       /\ IF r.err = "none"
          THEN /\ field_idx' = field_idx + 1
               /\ pc' = "loop"
               /\ UNCHANGED raised
          ELSE /\ raised' = r.err
               /\ pc' = "error"
               /\ UNCHANGED field_idx
    /\ UNCHANGED <<rendered_template, layout, rows_per_page, page_number,
                   previous, thread>>

\* save, line 53: self._draw_field(field)
save_draw_field ==
    /\ pc = "draw"
    /\ LET r == _draw_field(Fields[field_idx], field_idx) IN
       /\ canvas' = canvas \o r.calls
       /\ IF r.err = "none"
          THEN /\ field_idx' = field_idx + 1
               /\ pc' = "loop"
               /\ UNCHANGED raised
          ELSE /\ raised' = r.err
               /\ pc' = "error"
               /\ UNCHANGED field_idx
    /\ UNCHANGED <<rendered_template, layout, rows_per_page, page_number,
                   previous, thread>>

\* variant of the finalize: the page is completed only when something was
\* drawn
save_finalize_calls_skip_blank ==
    IF canvas = <<>>
    THEN << [line |-> 56, op |-> "save", field |-> 0] >>
    ELSE << [line |-> 55, op |-> "showPage", field |-> 0],
            [line |-> 56, op |-> "save", field |-> 0] >>

\* variant of the finalize: the last page is never completed
save_finalize_calls_no_show_page ==
    << [line |-> 56, op |-> "save", field |-> 0] >>

\* the calls of lines 55-56
save_finalize_calls ==
    << [line |-> 55, op |-> "showPage", field |-> 0],
       [line |-> 56, op |-> "save", field |-> 0] >>

\* save, lines 55-56, once the loop is exhausted
save_finalize ==
    /\ pc = "loop"
    /\ field_idx > Len(Fields)
    /\ canvas' = canvas \o save_finalize_calls
    /\ pc' = "done"
    /\ UNCHANGED <<rendered_template, layout, rows_per_page, page_number,
                   field_idx, raised, previous, thread>>

Next == render \/ save_begin \/ save_page_break \/ save_draw_field \/ save_finalize

Spec == Init /\ [][Next]_vars

-----------------------------------------------------------------------------
(* Two save calls on the same instance, one per thread.  page_number,      *)
(* canvas and form are attributes of the instance, so both calls read and  *)
(* write the same ones; the loop position is local to each call.  A thread *)
(* switch can fall between any two statements; the steps below are those   *)
(* of the sequential pass.                                                 *)

\* the documents rendered before the two calls: one or two rows per page,
\* grid texts on rows 0 to 2 and a field without type
ConcFieldPool ==
    { f \in FieldPool :
        \/ /\ Get(f, "type", "None") = "text"
           /\ "col" \in DOMAIN f
           /\ RowOf(f) <= 2
        \/ "type" \notin DOMAIN f }

ConcTemplates ==
    { t \in Templates :
        /\ "layout" \in DOMAIN t
        /\ "fields" \in DOMAIN t
        /\ t["layout"] \in { [row_height |-> 400],
                             [margin_y |-> 50, row_height |-> 346] }
        /\ \A k \in 1..Len(t["fields"]) : t["fields"][k] \in ConcFieldPool }

\* render(context), before the threads start
conc_render == render /\ rendered_template' \in ConcTemplates

\* save on thread t, lines 41-43 and the entry of the loop
conc_save_begin(t) ==
    /\ rendered_template # None
    /\ rows_per_page # None
    /\ thread[t].pc = "idle"
    /\ canvas' = <<>>
    /\ page_number' = 0
    /\ thread' = [thread EXCEPT ![t] =
                    [pc |-> "loop", field_idx |-> 1, raised |-> "none",
                     emitted |-> <<>>]]
    /\ UNCHANGED <<rendered_template, layout, rows_per_page, pc, field_idx,
                   raised, previous>>

\* save on thread t, lines 46-51 for the field at its loop position
conc_save_page_break(t) ==
    /\ thread[t].pc = "loop"
    /\ thread[t].field_idx <= Len(Fields)
    /\ LET k == thread[t].field_idx
           row == RowOf(Fields[k])
           calls == << [line |-> 48, op |-> "showPage", field |-> k] >>
                      \o _draw_debug_page_number(page_number', k)
       IN  IF _needs_page_break(row)
           THEN /\ page_number' = increment_page(page_number)
                /\ canvas' = canvas \o calls
                /\ thread' = [thread EXCEPT
                                ![t].pc = "draw",
                                ![t].emitted = @ \o calls]
           ELSE /\ thread' = [thread EXCEPT ![t].pc = "draw"]
                /\ UNCHANGED <<page_number, canvas>>
    /\ UNCHANGED <<rendered_template, layout, rows_per_page, pc, field_idx,
                   raised, previous>>

\* save on thread t, line 53
conc_save_draw_field(t) ==
    /\ thread[t].pc = "draw"
    /\ LET k == thread[t].field_idx
           r == _draw_field(Fields[k], k)
       IN  /\ canvas' = canvas \o r.calls
           /\ thread' = [thread EXCEPT
                           ![t].emitted = @ \o r.calls,
                           ![t].field_idx = IF r.err = "none" THEN k + 1 ELSE k,
                           ![t].pc = IF r.err = "none" THEN "loop" ELSE "error",
                           ![t].raised = r.err]
    /\ UNCHANGED <<rendered_template, layout, rows_per_page, page_number,
                   pc, field_idx, raised, previous>>

\* save on thread t, lines 55-56
conc_save_finalize(t) ==
    /\ thread[t].pc = "loop"
    /\ thread[t].field_idx > Len(Fields)
    /\ canvas' = canvas \o save_finalize_calls
    /\ thread' = [thread EXCEPT ![t].pc = "done",
                                ![t].emitted = @ \o save_finalize_calls]
    /\ UNCHANGED <<rendered_template, layout, rows_per_page, page_number,
                   pc, field_idx, raised, previous>>

NextConc ==
    \/ conc_render
    \/ \E t \in Threads : conc_save_begin(t)
    \/ \E t \in Threads : conc_save_page_break(t)
    \/ \E t \in Threads : conc_save_draw_field(t)
    \/ \E t \in Threads : conc_save_finalize(t)

SpecConc == Init /\ [][NextConc]_vars

-----------------------------------------------------------------------------
(* Vocabulary of the properties. *)

\* render stored an integer in rows_per_page
HasRpp == rows_per_page # None

\* the source lines whose calls draw a field
DrawLines == {105, 106, 111, 126, 140, 154, 155}

\* positions of the canvas log holding the call made at the given source line
CallsAt(ln) == { n \in 1..Len(canvas) : canvas[n].line = ln }

\* number of mid-pass page breaks emitted (line 48)
MidBreaks == Cardinality(CallsAt(48))

\* number of page-completion calls emitted (lines 48 and 55)
ShowPages == Cardinality({ n \in 1..Len(canvas) : canvas[n].op = "showPage" })

\* the field at position k made the loop break the page
BrokeFor(k) == \E n \in CallsAt(48) : canvas[n].field = k

\* the loop has gone past the field at position k
Passed(k) == \/ pc = "done"
             \/ pc \in {"loop", "draw"} /\ field_idx > k

\* the dict carries an explicit position
Explicit(d) == "x" \in DOMAIN d /\ "y" \in DOMAIN d

\* the rows of the field list never go down
NonDecreasing ==
    \A k \in 1..Len(Fields) - 1 : RowOf(Fields[k]) <= RowOf(Fields[k + 1])

\* y of the top band of a page
TopBand == page_size[2] - Get(layout, "margin_y", 50)

-----------------------------------------------------------------------------
(* C1: a layout whose computed rows_per_page is zero or negative is a fatal *)
(* configuration error: the pass aborts before any call is made on the     *)
(* canvas, so the call log stays empty and the pass never completes.       *)
C1_NonPositiveRowsAbortBeforeDrawing ==
    (HasRpp /\ Rpp <= 0) => (canvas = <<>> /\ pc # "done")

(* C2: when save reaches a field whose kind is not one of the five known   *)
(* kinds the pass aborts there: no drawing call exists for that field or   *)
(* any later one, the loop never gets past it, and neither the final       *)
(* showPage nor the canvas save is called.                                 *)
C2_UnknownKindAborts ==
    \A k \in 1..Len(Fields) :
        Get(Fields[k], "type", "None") \notin KnownTypes =>
            /\ ~Passed(k)
            /\ \A n \in 1..Len(canvas) :
                 /\ canvas[n].line \in DrawLines => canvas[n].field < k
                 /\ canvas[n].line \notin {55, 56}

\* the pass stopped at an unknown second field after drawing the first
C2_Witness ==
    /\ pc = "error"
    /\ raised = "NotImplementedError"
    /\ field_idx = 2
    /\ Get(Fields[2], "type", "None") = "image"
    /\ \E n \in CallsAt(106) : canvas[n].field = 1

(* C3: when every field's row is below rows_per_page, in any order, no     *)
(* mid-pass page break is emitted and page_number stays 0; the completed   *)
(* pass has made exactly one page boundary call, the trailing finalize.    *)
C3_RowsBelowCapacityOnePage ==
    (HasRpp /\ \A k \in 1..Len(Fields) : RowOf(Fields[k]) < Rpp) =>
        /\ page_number = 0
        /\ MidBreaks = 0
        /\ pc = "done" => /\ ShowPages = 1
                          /\ canvas[Len(canvas) - 1].line = 55
                          /\ canvas[Len(canvas)].line = 56

\* a completed pass over two fields in descending row order, the first on
\* the last row of the page
C3_Witness ==
    /\ pc = "done"
    /\ HasRpp
    /\ Len(Fields) = 2
    /\ RowOf(Fields[1]) = Rpp - 1
    /\ RowOf(Fields[2]) < RowOf(Fields[1])
    /\ ShowPages = 1

\* the field list of C4: non-decreasing rows from row 0 to row 2 x rows_per_page - 2
SpansTwoPagesLessOneRow ==
    /\ HasRpp
    /\ Len(Fields) >= 1
    /\ NonDecreasing
    /\ RowOf(Fields[1]) = 0
    /\ RowOf(Fields[Len(Fields)]) = 2 * Rpp - 2

(* C4 as stated: for every rows_per_page >= 1, a list in non-decreasing    *)
(* row order spanning rows 0 to 2 x rows_per_page - 2 gives exactly one    *)
(* mid-pass page break in a completed pass.                                *)
C4_Original ==
    (pc = "done" /\ SpansTwoPagesLessOneRow /\ Rpp >= 1) => MidBreaks = 1

(* C4 amended: for every rows_per_page >= 2, a list in non-decreasing row  *)
(* order spanning rows 0 to 2 x rows_per_page - 2 gives exactly one        *)
(* mid-pass page break in a completed pass (with rows_per_page = 1 the     *)
(* span is the single row 0 and there is no break).                        *)
C4_OnePageBreak ==
    (pc = "done" /\ SpansTwoPagesLessOneRow /\ Rpp >= 2) => MidBreaks = 1

\* rows 0 and 4 with three rows per page, pass completed
C4_Witness ==
    /\ pc = "done"
    /\ SpansTwoPagesLessOneRow
    /\ Rpp = 3
    /\ Len(Fields) = 2
    /\ BrokeFor(2)

(* C5: when page_number is p and the next field's row is                   *)
(* (p + 1) x rows_per_page, the loop emits exactly one page break before   *)
(* any draw call of that field and page_number becomes p + 1; the field's  *)
(* local row is then 0, so a text, fillable or checkbox placed on the grid *)
(* is drawn at y = page_height - margin_y.                                 *)
C5_RowAtNextPageStart ==
    [][
      /\ ( /\ pc = "loop"
           /\ field_idx <= Len(Fields)
           /\ HasRpp
           /\ RowOf(Fields[field_idx]) = (page_number + 1) * Rpp )
         => /\ pc' = "draw"
            /\ page_number' = page_number + 1
            /\ Len(canvas') = Len(canvas) + 3
            /\ SubSeq(canvas', 1, Len(canvas)) = canvas
            /\ canvas'[Len(canvas) + 1].line = 48
            /\ canvas'[Len(canvas) + 2].line = 81
            /\ canvas'[Len(canvas) + 3].line = 82
            /\ \A n \in 1..Len(canvas') :
                 canvas'[n].line \in DrawLines => canvas'[n].field < field_idx
      /\ ( /\ pc = "draw"
           /\ BrokeFor(field_idx)
           /\ RowOf(Fields[field_idx]) = page_number * Rpp
           /\ Rpp # 0
           /\ ~Explicit(Fields[field_idx]) )
         => /\ Get(Fields[field_idx], "type", "None") = "text" => pc' = "loop"
            /\ \A n \in Len(canvas) + 1..Len(canvas') :
                 canvas'[n].line \in {106, 111, 126} => canvas'[n].y = TopBand
    ]_vars

\* the second field, at row 2 x rows_per_page while page_number was 1, was
\* drawn on the top band of page 2
C5_Witness ==
    /\ HasRpp
    /\ Rpp >= 1
    /\ page_number = 2
    /\ Len(Fields) = 2
    /\ RowOf(Fields[2]) = 2 * Rpp
    /\ BrokeFor(1)
    /\ BrokeFor(2)
    /\ \E n \in CallsAt(106) : canvas[n].field = 2 /\ canvas[n].y = TopBand

-----------------------------------------------------------------------------
(* The closed form of the grid placement, stated apart from the code. *)

\* the dict a drawing call took its position from: the radio option for a
\* radio call, the field otherwise
SrcOf(e) == IF e.line = 140 THEN Fields[e.field]["options"][e.option]
            ELSE Fields[e.field]

\* the calls that draw at one resolved position
PlacedLines == {106, 111, 126, 140}

\* row mod rows_per_page for a row >= 0, the result taking the sign of
\* rows_per_page
LocalRow(row) == IF Rpp > 0 THEN row % Rpp ELSE 0 - ((0 - row) % (0 - Rpp))

GridX(col) == Get(layout, "margin_x", 50) + col * Get(layout, "column_width", 120)
GridY(row) == page_size[2] - Get(layout, "margin_y", 50)
                - LocalRow(row) * Get(layout, "row_height", 30)
GridWidth(col_span) == col_span * Get(layout, "column_width", 120)

(* C6: every position resolved from grid coordinates alone is exactly      *)
(* (margin_x + col x column_width,                                         *)
(*  page_height - margin_y - (row mod rows_per_page) x row_height,         *)
(*  col_span x column_width); so two grid records with equal col, col_span *)
(* and row mod rows_per_page are drawn at the same place whatever their    *)
(* absolute rows, the page_number and the fields processed before.         *)
C6_GridResolution ==
    /\ \A n \in 1..Len(canvas) :
         LET e == canvas[n] IN
         /\ (e.line \in PlacedLines /\ ~Explicit(SrcOf(e))) =>
               /\ e.x = GridX(Get(SrcOf(e), "col", 0))
               /\ e.y = GridY(Get(SrcOf(e), "row", 0))
               /\ e.line = 111 =>
                    e.width = GridWidth(Get(SrcOf(e), "col_span", 1))
         /\ e.line = 155 =>
               /\ e.x1 = GridX(Fields[e.field]["col1"])
               /\ e.y1 = GridY(Fields[e.field]["row1"])
               /\ e.x2 = GridX(Fields[e.field]["col2"])
               /\ e.y2 = GridY(Fields[e.field]["row2"])
    /\ \A n, m \in 1..Len(canvas) :
         LET e == canvas[n]
             f == canvas[m]
         IN  ( /\ e.line \in PlacedLines /\ ~Explicit(SrcOf(e))
               /\ f.line \in PlacedLines /\ ~Explicit(SrcOf(f))
               /\ Get(SrcOf(e), "col", 0) = Get(SrcOf(f), "col", 0)
               /\ Get(SrcOf(e), "col_span", 1) = Get(SrcOf(f), "col_span", 1)
               /\ LocalRow(Get(SrcOf(e), "row", 0))
                    = LocalRow(Get(SrcOf(f), "row", 0)) )
             => (e.x = f.x /\ e.y = f.y)

\* two texts on different absolute rows drawn at the same place, the first
\* one while page_number lags behind the page its row belongs to
C6_Witness ==
    /\ HasRpp
    /\ Rpp >= 1
    /\ page_number = 1
    /\ Len(Fields) = 2
    /\ RowOf(Fields[1]) >= 2 * Rpp
    /\ RowOf(Fields[2]) < RowOf(Fields[1])
    /\ \E n \in CallsAt(106) : \E m \in CallsAt(106) :
         /\ canvas[n].field = 1
         /\ canvas[m].field = 2
         /\ ~Explicit(Fields[1])
         /\ ~Explicit(Fields[2])
         /\ canvas[n].x = canvas[m].x
         /\ canvas[n].y = canvas[m].y

(* C7: every position resolved from a field or radio option carrying both  *)
(* x and y is exactly (x, y, width), width being 100 when absent, whatever *)
(* the layout, the record's row, col and col_span, and page_number.        *)
C7_ExplicitResolution ==
    \A n \in 1..Len(canvas) :
        LET e == canvas[n] IN
        (e.line \in PlacedLines /\ Explicit(SrcOf(e))) =>
            /\ e.x = SrcOf(e)["x"]
            /\ e.y = SrcOf(e)["y"]
            /\ e.line = 111 =>
                 e.width = (IF "width" \in DOMAIN SrcOf(e)
                            THEN SrcOf(e)["width"] ELSE 100)

\* under a layout that overrides margin_x and column_width and after a page
\* break: an explicit text that carries a row, and an explicit fillable
\* with a col and no width, are drawn at their x and y
C7_Witness ==
    /\ "margin_x" \in DOMAIN layout
    /\ page_number >= 1
    /\ Len(Fields) = 2
    /\ \E n \in CallsAt(106) :
         /\ canvas[n].field = 1
         /\ Explicit(Fields[1])
         /\ "row" \in DOMAIN Fields[1]
         /\ canvas[n].x = 50
         /\ canvas[n].y = 700
    /\ \E n \in CallsAt(111) :
         /\ canvas[n].field = 2
         /\ Explicit(Fields[2])
         /\ "col" \in DOMAIN Fields[2]
         /\ "width" \notin DOMAIN Fields[2]
         /\ canvas[n].width = 100

(* C8: a save pass over an empty field list draws nothing and breaks no    *)
(* page; it makes exactly one showPage call followed by the canvas save    *)
(* and ends with page_number = 0.                                          *)
C8_EmptyListOnePage ==
    (rendered_template # None /\ Fields = <<>>) =>
        /\ page_number = 0
        /\ pc # "draw"
        /\ pc = "loop" => canvas = <<>>
        /\ pc = "error" => (raised = "ZeroDivisionError" /\ canvas = <<>>)
        /\ pc = "done" =>
             /\ Len(canvas) = 2
             /\ canvas[1].op = "showPage"
             /\ canvas[2].op = "save"

\* a completed pass over a document without fields
C8_Witness ==
    /\ rendered_template # None
    /\ Fields = <<>>
    /\ pc = "done"
    /\ ShowPages = 1

(* C9: within a save pass page_number never decreases, whatever the order  *)
(* of the rows; a step raises it by at most one, only the page-break       *)
(* decision of a field raises it, and each field gets one such decision,   *)
(* so a field raises page_number by one at most however large its row.     *)
C9_PageNumberMonotonic ==
    [][
      (pc = "loop" \/ pc = "draw") =>
        ( /\ page_number' >= page_number
          /\ page_number' <= page_number + 1
          /\ (page_number' # page_number =>
                (pc = "loop" /\ pc' = "draw" /\ field_idx' = field_idx))
          /\ (pc = "draw" => (pc' = "error" \/ field_idx' = field_idx + 1)) )
    ]_vars

\* a first field two or more pages ahead moved page_number to 1 only, and
\* the second field, on a lower row, left it there
C9_Witness ==
    /\ pc = "draw"
    /\ field_idx = 2
    /\ HasRpp
    /\ Rpp >= 1
    /\ RowOf(Fields[1]) >= 2 * Rpp
    /\ RowOf(Fields[2]) < RowOf(Fields[1])
    /\ page_number = 1
    /\ BrokeFor(1)
    /\ ~BrokeFor(2)

(* C10: a fillable, checkbox or radio field without a name aborts the pass *)
(* when it is reached: the loop never gets past such a field, radio groups *)
(* with an empty or absent options list included.                          *)
C10_MissingNameAborts ==
    \A k \in 1..Len(Fields) :
        ( /\ Get(Fields[k], "type", "None") \in {"fillable", "checkbox", "radio"}
          /\ "name" \notin DOMAIN Fields[k] )
        => ~Passed(k)

-----------------------------------------------------------------------------
(* Order of the calls of a pass. *)

\* the source lines of the page break: showPage and the page-number label
BreakLines == {48, 81, 82}

\* the drawing calls logged for the field at position k, in order
IsDrawOf(e, k) == e.field = k /\ e.line \in DrawLines
FieldCalls(k) == SelectSeq(canvas, LAMBDA e : IsDrawOf(e, k))

\* the page-number labels logged, in order
IsLabel(e) == e.line = 82
Labels == SelectSeq(canvas, IsLabel)

\* the page a logical row belongs to, for rows_per_page >= 1
PageIdx(row) == row \div Rpp

(* C12: in a pass that completes without error every field is drawn       *)
(* exactly once and in source order; a field's page break comes before its *)
(* draw calls and after those of the previous field, and the trailing      *)
(* finalize comes after the draw calls of the last field.                  *)
C12_FieldsDrawnOnceInOrder ==
    pc = "done" =>
        /\ \A k \in 1..Len(Fields) :
             FieldCalls(k) = _draw_field(Fields[k], k).calls
        /\ Len(canvas) >= 2
        /\ canvas[Len(canvas) - 1].line = 55
        /\ canvas[Len(canvas)].line = 56
        /\ \A n \in 1..Len(canvas) - 2 :
             /\ canvas[n].field \in 1..Len(Fields)
             /\ canvas[n].line \in DrawLines \cup BreakLines
        /\ \A n, m \in 1..Len(canvas) - 2 :
             n < m =>
               /\ canvas[n].field <= canvas[m].field
               /\ (canvas[n].field = canvas[m].field
                   /\ canvas[m].line \in BreakLines)
                  => canvas[n].line \in BreakLines

\* a completed pass whose second field broke the page and was drawn after
\* the first
C12_Witness ==
    /\ pc = "done"
    /\ Len(Fields) = 2
    /\ FieldCalls(1) # <<>>
    /\ FieldCalls(2) # <<>>
    /\ BrokeFor(2)
    /\ ~BrokeFor(1)

(* C13: a field with explicit x and y that carries a row still takes part  *)
(* in pagination: when its row >= (page_number + 1) x rows_per_page the    *)
(* page is broken and page_number incremented before it is drawn, and it   *)
(* is then drawn at exactly its x and y.                                   *)
C13_ExplicitFieldPaginates ==
    [][
      /\ ( /\ pc = "loop"
           /\ field_idx <= Len(Fields)
           /\ HasRpp
           /\ Explicit(Fields[field_idx])
           /\ "row" \in DOMAIN Fields[field_idx]
           /\ Fields[field_idx]["row"] >= (page_number + 1) * Rpp )
         => /\ pc' = "draw"
            /\ page_number' = page_number + 1
            /\ Len(canvas') = Len(canvas) + 3
            /\ canvas'[Len(canvas) + 1].line = 48
            /\ canvas'[Len(canvas) + 1].field = field_idx
            /\ \A n \in 1..Len(canvas') :
                 canvas'[n].line \in DrawLines => canvas'[n].field < field_idx
      /\ ( /\ pc = "draw"
           /\ Explicit(Fields[field_idx])
           /\ "row" \in DOMAIN Fields[field_idx]
           /\ Get(Fields[field_idx], "type", "None") = "text" )
         => /\ pc' = "loop"
            /\ page_number' = page_number
            /\ Len(canvas') = Len(canvas) + 2
            /\ canvas'[Len(canvas')].line = 106
            /\ canvas'[Len(canvas')].x = Fields[field_idx]["x"]
            /\ canvas'[Len(canvas')].y = Fields[field_idx]["y"]
    ]_vars

\* an explicit text carrying a row of a later page broke the page and was
\* drawn at its x and y
C13_Witness ==
    /\ HasRpp
    /\ Rpp >= 1
    /\ page_number = 1
    /\ \E k \in 1..Len(Fields) :
         /\ Explicit(Fields[k])
         /\ "row" \in DOMAIN Fields[k]
         /\ Fields[k]["row"] >= Rpp
         /\ BrokeFor(k)
         /\ \E n \in CallsAt(106) :
              /\ canvas[n].field = k
              /\ canvas[n].x = Fields[k]["x"]
              /\ canvas[n].y = Fields[k]["y"]

\* the field the loop is at is a line
AtLine == Get(Fields[field_idx], "type", "None") = "line"

(* C14: a line field resolves both endpoints against the same page state:  *)
(* the page-break decision of a line reads its row attribute only, never   *)
(* row1 or row2, so a line without a row breaks no page under              *)
(* rows_per_page >= 1 whatever row1 and row2 are; drawing the line changes *)
(* neither page_number nor the page, and draws one segment from local row  *)
(* row1 mod rows_per_page to local row row2 mod rows_per_page.             *)
C14_LineOnCurrentPage ==
    [][
      /\ ( /\ pc = "loop"
           /\ field_idx <= Len(Fields)
           /\ HasRpp
           /\ AtLine )
         => /\ (page_number' # page_number)
                 = (Get(Fields[field_idx], "row", 0) >= (page_number + 1) * Rpp)
            /\ ("row" \notin DOMAIN Fields[field_idx] /\ Rpp >= 1)
                 => (page_number' = page_number /\ canvas' = canvas)
      /\ ( /\ pc = "draw"
           /\ AtLine
           /\ Rpp # 0
           /\ {"col1", "row1", "col2", "row2"} \subseteq DOMAIN Fields[field_idx] )
         => /\ pc' = "loop"
            /\ page_number' = page_number
            /\ Len(canvas') = Len(canvas) + 2
            /\ SubSeq(canvas', 1, Len(canvas)) = canvas
            /\ canvas'[Len(canvas) + 1].line = 154
            /\ canvas'[Len(canvas) + 2].line = 155
            /\ canvas'[Len(canvas) + 2].x1 = GridX(Fields[field_idx]["col1"])
            /\ canvas'[Len(canvas) + 2].y1 = GridY(Fields[field_idx]["row1"])
            /\ canvas'[Len(canvas) + 2].x2 = GridX(Fields[field_idx]["col2"])
            /\ canvas'[Len(canvas) + 2].y2 = GridY(Fields[field_idx]["row2"])
    ]_vars

\* a line whose second endpoint lies on a later page than the first was
\* drawn on page 0 without any page break
C14_Witness ==
    /\ HasRpp
    /\ Rpp >= 1
    /\ page_number = 0
    /\ MidBreaks = 0
    /\ \E n \in CallsAt(155) :
         LET f == Fields[canvas[n].field] IN
         /\ f["row2"] >= Rpp
         /\ f["row1"] < Rpp
         /\ canvas[n].y1 = GridY(f["row1"])
         /\ canvas[n].y2 = GridY(f["row2"])

\* the field lists of C16: rows never go down and no page is skipped
NoPageSkipped ==
    /\ HasRpp
    /\ Rpp >= 1
    /\ Len(Fields) >= 1
    /\ NonDecreasing
    /\ PageIdx(RowOf(Fields[1])) <= 1
    /\ \A k \in 1..Len(Fields) - 1 :
         PageIdx(RowOf(Fields[k + 1])) - PageIdx(RowOf(Fields[k])) <= 1

(* C16: if rows_per_page >= 1, the rows are non-decreasing, the first      *)
(* field's page index floor(row / rows_per_page) is at most 1 and          *)
(* consecutive page indexes differ by at most 1, then every field is drawn *)
(* while page_number = floor(row / rows_per_page), so that                 *)
(* row < (page_number + 1) x rows_per_page at every draw.                  *)
C16_DrawnOnOwnPage ==
    (NoPageSkipped /\ pc = "draw") =>
        /\ page_number = PageIdx(RowOf(Fields[field_idx]))
        /\ RowOf(Fields[field_idx]) < (page_number + 1) * Rpp

\* the second field, one page after the first, is about to be drawn on
\* page 2
C16_Witness ==
    /\ NoPageSkipped
    /\ pc = "draw"
    /\ field_idx = 2
    /\ page_number = 2
    /\ PageIdx(RowOf(Fields[1])) = 1

(* C17: the number of mid-pass page breaks emitted so far equals           *)
(* page_number, between fields and at every other point of a pass; a pass  *)
(* that completed has made exactly page_number + 1 page-completion calls,  *)
(* the last being the trailing finalize.                                   *)
C17_BreaksEqualPageNumber ==
    /\ MidBreaks = page_number
    /\ pc = "done" =>
         /\ ShowPages = page_number + 1
         /\ Len(canvas) >= 2
         /\ canvas[Len(canvas) - 1].line = 55
         /\ \A n \in 1..Len(canvas) :
              canvas[n].op = "showPage" => n <= Len(canvas) - 1

\* a completed pass of three pages
C17_Witness ==
    /\ pc = "done"
    /\ page_number = 2
    /\ MidBreaks = 2
    /\ ShowPages = 3

(* C18: a page-number label is stamped exactly once per mid-pass page      *)
(* break, right after the break and before the triggering field is drawn,  *)
(* and shows the new page's 1-based index; the first page gets no label,   *)
(* so the labels of a pass are exactly 2, 3, ..., page_number + 1 in order.*)
C18_LabelPerBreak ==
    /\ Len(Labels) = page_number
    /\ \A j \in 1..Len(Labels) : Labels[j].page = j + 1
    /\ \A n \in CallsAt(48) :
         /\ n + 2 <= Len(canvas)
         /\ canvas[n + 1].line = 81
         /\ canvas[n + 2].line = 82
         /\ canvas[n + 2].field = canvas[n].field
    /\ \A n \in CallsAt(82) :
         /\ n >= 3
         /\ canvas[n - 2].line = 48
         /\ \A m \in 1..Len(canvas) :
              IsDrawOf(canvas[m], canvas[n].field) => m > n

\* two page breaks, labelled 2 and 3, each before its field's text
C18_Witness ==
    /\ page_number = 2
    /\ Len(Labels) = 2
    /\ Labels[1].page = 2
    /\ Labels[2].page = 3
    /\ \E n \in CallsAt(106) : canvas[n].field = 2

-----------------------------------------------------------------------------
(* Passes compared with one another. *)

\* a is an initial part of b
IsPrefix(a, b) == Len(a) <= Len(b) /\ SubSeq(b, 1, Len(a)) = a

\* the calls of a save pass that runs alone on the rendered document, from
\* the field at position k on with page_number p
RECURSIVE SoloEmitted(_, _)
SoloEmitted(k, p) ==
    IF k > Len(Fields) THEN save_finalize_calls
    ELSE IF ~HasRpp THEN <<>>
    ELSE LET brk == RowOf(Fields[k]) >= (p + 1) * Rpp
             q == IF brk THEN p + 1 ELSE p
             head == IF brk
                     THEN << [line |-> 48, op |-> "showPage", field |-> k] >>
                            \o _draw_debug_page_number(q, k)
                     ELSE <<>>
             r == _draw_field(Fields[k], k)
         IN  head \o r.calls
                  \o (IF r.err = "none" THEN SoloEmitted(k + 1, q) ELSE <<>>)

\* SoloEmitted is the log of the sequential pass: checked under Spec
SoloEmittedIsSequentialLog ==
    /\ pc \in {"loop", "draw"} => IsPrefix(canvas, SoloEmitted(1, 0))
    /\ (pc = "done" \/ (pc = "error" /\ field_idx >= 1 /\ rendered_template # None))
         => canvas = SoloEmitted(1, 0)

(* C11: Page State is not shared between concurrent passes on the same     *)
(* instance: when two save passes are interleaved, each pass makes the     *)
(* calls it would make running alone, page breaks included, and has made   *)
(* all of them when it ends.                                               *)
C11_InterleavedPassesIndependent ==
    \A t \in Threads :
        /\ IsPrefix(thread[t].emitted, SoloEmitted(1, 0))
        /\ thread[t].pc \in {"done", "error"} =>
             thread[t].emitted = SoloEmitted(1, 0)

(* C15: Page State is reset at the start of every pass: a save that        *)
(* follows another save on the same rendered document, whether that one    *)
(* completed or aborted, starts at page_number = 0 on an empty canvas,     *)
(* makes the same calls in the same order and ends the same way, on the    *)
(* same page_number.                                                       *)
C15_SecondPassRepeatsFirst ==
    previous # None =>
        /\ (pc = "loop" /\ field_idx = 1) => (page_number = 0 /\ canvas = <<>>)
        /\ pc \in {"loop", "draw"} =>
             /\ IsPrefix(canvas, previous.canvas)
             /\ page_number <= previous.page_number
        /\ pc \in {"done", "error"} =>
             /\ canvas = previous.canvas
             /\ pc = previous.pc
             /\ raised = previous.raised
             /\ page_number = previous.page_number

\* a second pass ended like a first pass that had broken the page and was
\* then aborted by its second field
C15_Witness ==
    /\ previous # None
    /\ previous.pc = "error"
    /\ previous.page_number = 1
    /\ pc = "error"
    /\ field_idx = 2
    /\ page_number = 1
    /\ canvas = previous.canvas
    /\ canvas # <<>>

====
